---- MODULE Spec2Model ----
(***************************************************************************)
(* Model of felupe's incremental Newton-Raphson driver (felupe/utils.py:   *)
(* newtonrhapson and incsolve), of the MORPH constitutive evaluators       *)
(* (models/_morph.py) and of the multi-point constraint                    *)
(* (mechanics/_multipoint.py).  Each of the three has its own              *)
(* specification; the variables of the other two stay at rest in it.       *)
(*                                                                         *)
(* The discretised body is a bar of two elements with a displacement       *)
(* field u (two scalar unknowns, DOF 1 and 2) and a pressure-like field p  *)
(* (one scalar unknown, DOF 3).  The stacked global vector is (u1, u2, p). *)
(* Field objects live in a heap, because the driver passes them by         *)
(* reference and the corrector mutates them in place.                      *)
(*                                                                         *)
(* A floating point number is an integer or NaN.  A vector norm, which is  *)
(* the square root of a non-negative integer, is held by its radicand, and *)
(* the ratio of two norms by the pair of radicands; comparisons between    *)
(* them are exact.                                                         *)
(***************************************************************************)
EXTENDS Integers, Sequences, FiniteSets, TLC

\* ---------------------------------------------------------------- bounds
\* longest sequence of boundary values `move`
MaxLen == 2
\* largest boundary value in `move`
MaxTarget == 3
\* largest iteration cap `maxiter` passed to incsolve
MaxIterCap == 2

\* ------------------------------------------------- floating point numbers
NaN == -1000

isnan(x) == x = NaN

Add(a, b) == IF isnan(a) \/ isnan(b) THEN NaN ELSE a + b

Sub(a, b) == IF isnan(a) \/ isnan(b) THEN NaN ELSE a - b

Mul(a, b) == IF isnan(a) \/ isnan(b) THEN NaN ELSE a * b

Neg(a) == IF isnan(a) THEN NaN ELSE 0 - a

\* exact quotient; the reduced tangents of the model have determinant 1
Div(a, b) == IF isnan(a) \/ isnan(b) THEN NaN ELSE a \div b

RECURSIVE SumSeq(_)
SumSeq(s) == IF Len(s) = 0 THEN 0 ELSE Add(s[1], SumSeq(Tail(s)))

AnyNaN(v) == \E i \in 1..Len(v) : isnan(v[i])

\* v[idx] for an index array idx
Take(v, idx) == [i \in 1..Len(idx) |-> v[idx[i]]]

\* radicand of np.linalg.norm(v)
NormSq(v) == SumSeq([i \in 1..Len(v) |-> Mul(v[i], v[i])])

\* ------------------------------------------------------------ field layout
\* number of scalar unknowns of field 0 (u) and of field 1 (p)
FieldSizes == <<2, 1>>

NDof == FieldSizes[1] + FieldSizes[2]

\* the stacked vector of all field values: the fields' values one after
\* the other, in the order of the fields
RECURSIVE Stack(_)
Stack(vals) == IF vals = <<>> THEN <<>> ELSE vals[1] \o Stack(Tail(vals))

\* np.split(x, unstack): the parts x[:o1], x[o1:o2], ..., x[on:], one more
\* than there are offsets; a slice of Python ends at the end of x and is
\* empty where its end is not behind its start
Split(x, offsets) ==
    LET cut(k) == IF k = 0 THEN 0
                  ELSE IF k > Len(offsets) \/ offsets[k] > Len(x) THEN Len(x)
                  ELSE offsets[k]
    IN  [k \in 1..(Len(offsets) + 1) |->
            IF cut(k) <= cut(k - 1) THEN <<>> ELSE SubSeq(x, cut(k - 1) + 1, cut(k))]

\* the cumulative lengths of the fields, the last field left out
RECURSIVE Offsets(_)
Offsets(sizes) ==
    IF Len(sizes) <= 1 THEN <<>>
    ELSE <<sizes[1]>> \o [k \in 1..(Len(sizes) - 2) |->
                             sizes[1] + Offsets(Tail(sizes))[k]]

\* dofpartition(fields, bounds): an index of the stacked unknowns is
\* prescribed where a boundary pins it and free elsewhere, both in ascending
\* order; the split offsets are the cumulative lengths of the fields.
\* Boundary "move" pins DOF 1, boundary "fix" (when present) DOF 2.
dofpartition(fix) ==
    LET pinned == {1} \cup (IF fix THEN {2} ELSE {})
        ascending(S) ==
            CHOOSE d \in [1..Cardinality(S) -> S] :
                \A i \in 1..Cardinality(S), j \in 1..Cardinality(S) :
                    i < j => d[i] < d[j]
    IN  [dof0 |-> ascending(pinned),
         dof1 |-> ascending((1..NDof) \ pinned),
         unstack |-> Offsets(FieldSizes)]

\* apply(fields[0], bounds, dof0): prescribed values, "fix" holds DOF 2 at 2
apply(value, d0) == [i \in 1..Len(d0) |-> IF d0[i] = 1 THEN value ELSE 2]

\* Field.add(dfield): values += dfield
FieldAdd(vals, dvals) == [i \in 1..Len(vals) |-> Add(vals[i], dvals[i])]

\* ---------------------------------------------- kinematics and material
\* F = identity(grad(u)) + grad(u), one value per element of the bar
DefGrad(vals) ==
    << Add(1, vals[1][1]), Add(1, Sub(vals[1][2], vals[1][1])) >>

\* interpolate(p): the value of the second field at the integration points
Interp(vals) == vals[2][1]

\* the constitutive law has no value for an inverted or overstretched element
Breakdown(Fe) == isnan(Fe) \/ Fe <= 0 \/ Fe > 3

\* materials the caller may pass as fun_f and fun_A: linear with a consistent
\* tangent, twice as stiff as its tangent, losing its stiffness at high
\* pressure, and without stiffness
Materials == {"lin", "stiff", "limit", "slack"}

Stress(mat, Fe) ==
    IF Breakdown(Fe) THEN NaN
    ELSE IF mat = "stiff" THEN 2 * (Fe - 1)
    ELSE IF mat = "slack" THEN 0
    ELSE Fe - 1

Tangent(mat, Fe, p) ==
    IF Breakdown(Fe) THEN NaN
    ELSE IF mat = "limit" /\ ~isnan(p) /\ p >= 4 THEN 0
    ELSE IF mat = "slack" THEN 0
    ELSE 1

\* total elongation of the bar
Elong(F) == Sub(Add(F[1], F[2]), 2)

\* fun_f(F, p): stress of the u-equations, integrand of the p-equation
fun_f(mat, F, p) ==
    [u |-> << Stress(mat, F[1]), Stress(mat, F[2]) >>,
     p |-> IF Breakdown(F[1]) \/ Breakdown(F[2]) THEN NaN
           ELSE Sub(p, Mul(Elong(F), Elong(F)))]

\* fun_A(F, p): tangent moduli of the u-equations, derivatives of the
\* p-equation with respect to F and to p
fun_A(mat, F, p) ==
    [uu |-> << Tangent(mat, F[1], p), Tangent(mat, F[2], p) >>,
     pF |-> IF Breakdown(F[1]) \/ Breakdown(F[2]) THEN NaN
            ELSE Mul(-2, Elong(F)),
     pp |-> IF Breakdown(F[1]) \/ Breakdown(F[2]) THEN NaN ELSE 1]

\* IntegralFormMixed(f, fields, dV).assemble().toarray()[:, 0]
AssembleVector(f) == << Sub(f.u[1], f.u[2]), f.u[2], f.p >>

\* IntegralFormMixed(A, fields, dV).assemble()
AssembleMatrix(A) ==
    << << Add(A.uu[1], A.uu[2]), Neg(A.uu[2]), 0 >>,
       << Neg(A.uu[2]), A.uu[2], 0 >>,
       << Sub(A.pF, A.pF), A.pF, A.pp >> >>

\* ------------------------------------------------------------ linear solve
Minor(M, j) ==
    [a \in 1..(Len(M) - 1) |->
        [b \in 1..(Len(M) - 1) |-> M[a + 1][IF b < j THEN b ELSE b + 1]]]

RECURSIVE Det(_)
Det(M) ==
    IF Len(M) = 0 THEN 1
    ELSE IF Len(M) = 1 THEN M[1][1]
    ELSE SumSeq([j \in 1..Len(M) |->
            Mul(IF j % 2 = 1 THEN 1 ELSE -1, Mul(M[1][j], Det(Minor(M, j))))])

ReplaceCol(M, j, b) ==
    [a \in 1..Len(M) |-> [c \in 1..Len(M) |-> IF c = j THEN b[a] ELSE M[a][c]]]

MatVec(M, v) ==
    [a \in 1..Len(M) |-> SumSeq([c \in 1..Len(v) |-> Mul(M[a][c], v[c])])]

\* partition(fields, r, K, dof1, dof0): the reduced system
partition(vals, rr, KK, d1, d0) ==
    [u0  |-> Take(Stack(vals), d0),
     r1  |-> Take(rr, d1),
     K11 |-> [a \in 1..Len(d1) |-> [b \in 1..Len(d1) |-> KK[d1[a]][d1[b]]]],
     K10 |-> [a \in 1..Len(d1) |-> [b \in 1..Len(d0) |-> KK[d1[a]][d0[b]]]],
     dof1 |-> d1,
     dof0 |-> d0]

\* the reduced tangent is not invertible
Singular(sys) == Det(sys.K11) = 0

\* change of the prescribed values
du0(sys, ext) == [i \in 1..Len(ext) |-> Sub(ext[i], sys.u0[i])]

\* right hand side of the reduced system
Rhs(sys, ext) ==
    [a \in 1..Len(sys.r1) |->
        Sub(Neg(sys.r1[a]), MatVec(sys.K10, du0(sys, ext))[a])]

\* solve(*system, u0ext): the full-length correction
solve(sys, ext) ==
    LET d  == Det(sys.K11)
        b  == Rhs(sys, ext)
        x1 == [a \in 1..Len(sys.dof1) |-> Div(Det(ReplaceCol(sys.K11, a, b)), d)]
        x0 == du0(sys, ext)
    IN  [i \in 1..NDof |->
            IF \E a \in 1..Len(sys.dof1) : sys.dof1[a] = i
            THEN x1[CHOOSE a \in 1..Len(sys.dof1) : sys.dof1[a] = i]
            ELSE x0[CHOOSE a \in 1..Len(sys.dof0) : sys.dof0[a] = i]]

\* ---------------------------------------------- pieces of newtonrhapson
\* range(maxiter + 1) in place of range(maxiter)
LoopOneMore(passes, cap) == passes <= cap

\* `for iteration in range(maxiter)`: another pass is due
LoopHasNext(passes, cap) == passes < cap

\* np.any(np.isnan(dfields[0]))
CorrectionIsNaN(df) == AnyNaN(df[1])

\* fields that take no correction
NoCorrection(vals, df) == vals

\* for field, dfield in zip(fields, dfields): field.add(dfield)
ApplyCorrection(vals, df) == [k \in 1..Len(vals) |-> FieldAdd(vals[k], df[k])]

\* rref without the replacement of a zero norm
RrefAsIs(x) == x

\* rref = np.linalg.norm(r[dof0]); if rref == 0: rref = 1
RrefFallback(x) == IF x = 0 THEN 1 ELSE x

\* norm_r = np.linalg.norm(r[dof1]) / rref
NormRatio(rr, d1, ref) == [num |-> NormSq(Take(rr, d1)), den |-> ref]

\* norm_r <= tol in place of norm_r < tol
BelowOrEqual(nr, t) ==
    /\ ~isnan(nr.num)
    /\ ~isnan(nr.den)
    /\ nr.den > 0
    /\ t > 0
    /\ nr.num <= t * t * nr.den

\* norm_r > tol in place of norm_r < tol
Above(nr, t) ==
    /\ ~isnan(nr.num)
    /\ ~isnan(nr.den)
    /\ nr.den > 0
    /\ nr.num > t * t * nr.den

\* norm_r < tol; a comparison with NaN, or with the result of a division
\* by zero (inf or NaN), is false
Below(nr, t) ==
    /\ ~isnan(nr.num)
    /\ ~isnan(nr.den)
    /\ nr.den > 0
    /\ t > 0
    /\ nr.num < t * t * nr.den

\* a stiffness matrix that is not assembled again
KeptTangent(old, new) == old

\* K = IntegralFormMixed(A, fields, dV).assemble(): K is bound to the new matrix
Reassembled(old, new) == new

\* ------------------------------------------------------- pieces of incsolve
\* the first element of `move` at every increment
move_first(mv, k) == mv[1]

\* for increment, move_t in enumerate(move): the k-th element of `move`
move_t(mv, k) == mv[k]

\* a call that is passed every DOF as free, the prescribed ones too
FreeIncludesPrescribed(p) ==
    [dof0 |-> p.dof0, dof1 |-> p.dof0 \o p.dof1, unstack |-> p.unstack]

\* a call that is passed offsets one entry early
ShiftedUnstack(p) ==
    [dof0 |-> p.dof0, dof1 |-> p.dof1,
     unstack |-> [k \in 1..Len(p.unstack) |-> p.unstack[k] - 1]]

\* newtonrhapson(region, fields, u0ext, f, A, dof1, dof0, unstack, ...): the
\* partition the corrector is called with
PassedDofs(p) == p

\* a driver that goes on after a failed increment
NeverStops(result) == FALSE

\* `if not Result.converged:` the sequence stops
StopsAfter(result) == ~result.converged

\* res = [Result] in place of res.append(Result)
KeepsLast(records, result) == <<result>>

\* res.append(Result)
RecordsAfter(records, result) == Append(records, result)

\* ------------------------------------------------------------------- state
VARIABLES
    \* arguments of incsolve
    mat, move, maxiter, tol, fix,
    \* field objects: heap[o] holds the values of the fields object o
    heap,
    \* incsolve
    pc, fields, res, increment, boundsValue, u0ext, part, Result, returned,
    \* newtonrhapson
    F, f, A, r, K, converged, iteration, dfields, rref, norm_r,
    \* history of the run: increments for which the corrector was invoked,
    \* state at the entry of the current corrector call, the way the Newton
    \* loop was left, and one entry per corrector call that returned
    calls, entry, exit, log

VARIABLES
    \* the constitutive evaluator in use, its parameters p and its ε
    umat, param, eps,
    \* state-vector objects, and one entry per call of the evaluator
    states, evals

VARIABLES
    \* MultiPointConstraint: skip, points, centerpoint, multiplier, the
    \* values of the field, results.force and results.stiffness
    skip, points, centerpoint, multiplier, values, force, stiffness

args == <<mat, move, maxiter, tol, fix>>

drv == <<pc, fields, res, increment, boundsValue, u0ext, part, Result, returned>>

loc == <<F, f, A, r, K, converged, iteration, dfields, rref, norm_r>>

hist == <<calls, entry, exit, log>>

evl == <<umat, param, eps, states, evals>>

mpc == <<skip, points, centerpoint, multiplier, values, force, stiffness>>

vars == <<args, heap, drv, loc, hist, evl, mpc>>

\* the fields object supplied by the caller
CallerFields == 1

\* boundary values
Targets == 0..MaxTarget

RECURSIVE SeqsUpTo(_, _)
SeqsUpTo(S, n) ==
    IF n = 0 THEN {<<>>}
    ELSE LET shorter == SeqsUpTo(S, n - 1)
         IN  shorter \cup {Append(s, x) : s \in {t \in shorter : Len(t) = n - 1}, x \in S}

\* field values the caller may start from: undeformed, element 2 stretched,
\* element 2 inverted
StartValues == { << <<0, 0>>, <<0>> >>, << <<0, 1>>, <<0>> >>, << <<1, 0>>, <<0>> >> }

NoResult ==
    [fields |-> 0, r |-> <<>>, K |-> <<>>, F |-> <<>>, f |-> <<>>, A |-> <<>>,
     unstack |-> <<>>, converged |-> FALSE]

NoEntry ==
    [vals |-> <<>>, obj |-> 0, r |-> <<>>, K |-> <<>>, u0ext |-> <<>>,
     part |-> [dof0 |-> <<>>, dof1 |-> <<>>, unstack |-> <<>>]]

\* no evaluator has been called
EvalAtRest ==
    /\ umat = "none"
    /\ param = <<>>
    /\ eps = 0
    /\ states = <<>>
    /\ evals = <<>>

\* no constraint has been built
MpcAtRest ==
    /\ skip = <<>>
    /\ points = <<>>
    /\ centerpoint = 0
    /\ multiplier = 0
    /\ values = <<>>
    /\ force = <<>>
    /\ stiffness = <<>>

\* the locals of incsolve and newtonrhapson at the first statement of incsolve
DriverStart ==
    /\ pc = "start"
    /\ fields = CallerFields
    /\ res = <<>>
    /\ increment = 0
    /\ boundsValue = 0
    /\ u0ext = <<>>
    /\ part = [dof0 |-> <<>>, dof1 |-> <<>>, unstack |-> <<>>]
    /\ Result = NoResult
    /\ returned = <<>>
    /\ F = <<>> /\ f = <<>> /\ A = <<>> /\ r = <<>> /\ K = <<>>
    /\ converged = FALSE
    /\ iteration = 0
    /\ dfields = <<>>
    /\ rref = 0
    /\ norm_r = [num |-> 0, den |-> 1]
    /\ calls = <<>>
    /\ entry = NoEntry
    /\ exit = "none"
    /\ log = <<>>

\* incsolve is not called
DriverAtRest ==
    /\ mat = "lin"
    /\ move = <<>>
    /\ maxiter = 0
    /\ tol = 1
    /\ fix = FALSE
    /\ heap = << << <<0, 0>>, <<0>> >> >>
    /\ DriverStart

\* state at the first statement of incsolve
Init ==
    /\ mat \in Materials
    /\ move \in SeqsUpTo(Targets, MaxLen)
    /\ maxiter \in 0..MaxIterCap
    /\ tol \in {1, 2}
    /\ fix \in BOOLEAN
    /\ heap \in {<<v>> : v \in StartValues}
    /\ DriverStart
    /\ EvalAtRest
    /\ MpcAtRest

\* ------------------------------------------------------------------ incsolve
\* res = []; dof0, dof1, unstack = dofpartition(fields, bounds)
IncStart ==
    /\ pc = "start"
    /\ res' = <<>>
    /\ part' = dofpartition(fix)
    /\ pc' = "inc_next"
    /\ UNCHANGED <<evl, mpc, args, heap, loc, hist>>
    /\ UNCHANGED <<fields, increment, boundsValue, u0ext, Result, returned>>

\* next element of `move`: bounds[boundary].value = move_t
IncSetValue ==
    /\ pc = "inc_next"
    /\ increment < Len(move)
    /\ increment' = increment + 1
    /\ boundsValue' = move_t(move, increment + 1)
    /\ pc' = "inc_apply"
    /\ UNCHANGED <<evl, mpc, args, heap, loc, hist>>
    /\ UNCHANGED <<fields, res, u0ext, part, Result, returned>>

\* `move` is exhausted: the for loop ends
IncExhausted ==
    /\ pc = "inc_next"
    /\ increment = Len(move)
    /\ pc' = "savehistory"
    /\ UNCHANGED <<evl, mpc, args, heap, loc, hist>>
    /\ UNCHANGED <<fields, res, increment, boundsValue, u0ext, part, Result, returned>>

\* u0ext = apply(fields[0], bounds, dof0)
IncApply ==
    /\ pc = "inc_apply"
    /\ u0ext' = apply(boundsValue, part.dof0)
    /\ pc' = "nr_entry"
    /\ UNCHANGED <<evl, mpc, args, heap, loc, hist>>
    /\ UNCHANGED <<fields, res, increment, boundsValue, part, Result, returned>>

\* ------------------------------------------------------------- newtonrhapson
\* entry: F, f, A, r, K from the current field values; converged = False
NREntry ==
    /\ pc = "nr_entry"
    /\ LET vals == heap[fields]
           F0 == DefGrad(vals)
           f0 == fun_f(mat, F0, Interp(vals))
           A0 == fun_A(mat, F0, Interp(vals))
       IN  /\ F' = F0
           /\ f' = f0
           /\ A' = A0
           /\ r' = AssembleVector(f0)
           /\ K' = AssembleMatrix(A0)
           /\ entry' = [vals |-> vals, obj |-> fields, r |-> AssembleVector(f0),
                        K |-> AssembleMatrix(A0), u0ext |-> u0ext,
                        part |-> PassedDofs(part)]
    /\ converged' = FALSE
    /\ iteration' = 0
    /\ calls' = Append(calls, increment)
    /\ exit' = "none"
    /\ pc' = "nr_loop"
    /\ UNCHANGED <<evl, mpc, args, heap, log, dfields, rref, norm_r>>
    /\ UNCHANGED <<fields, res, increment, boundsValue, u0ext, part, Result, returned>>

\* loop head and solve: system = partition(...); dfields = np.split(solve(...))
NRSolve ==
    /\ pc = "nr_loop"
    /\ LoopHasNext(iteration, maxiter)
    /\ ~Singular(partition(heap[fields], r, K, PassedDofs(part).dof1, PassedDofs(part).dof0))
    /\ iteration' = iteration + 1
    /\ dfields' = Split(solve(partition(heap[fields], r, K, PassedDofs(part).dof1, PassedDofs(part).dof0), u0ext),
                        PassedDofs(part).unstack)
    /\ pc' = "nr_update"
    /\ UNCHANGED <<evl, mpc, args, heap, hist, F, f, A, r, K, converged, rref, norm_r>>
    /\ UNCHANGED <<fields, res, increment, boundsValue, u0ext, part, Result, returned>>

\* solve fails on a singular reduced tangent: the error leaves newtonrhapson
\* and incsolve, neither of which has a handler
NRSolveFails ==
    /\ pc = "nr_loop"
    /\ LoopHasNext(iteration, maxiter)
    /\ Singular(partition(heap[fields], r, K, PassedDofs(part).dof1, PassedDofs(part).dof0))
    /\ iteration' = iteration + 1
    /\ pc' = "raised"
    /\ UNCHANGED <<evl, mpc, args, heap, hist, F, f, A, r, K, converged, dfields, rref, norm_r>>
    /\ UNCHANGED <<fields, res, increment, boundsValue, u0ext, part, Result, returned>>

\* range(maxiter) is exhausted: the loop ends with converged = False
NRExhausted ==
    /\ pc = "nr_loop"
    /\ ~LoopHasNext(iteration, maxiter)
    /\ exit' = "maxiter"
    /\ pc' = "nr_return"
    /\ UNCHANGED <<evl, mpc, args, heap, loc, calls, entry, log>>
    /\ UNCHANGED <<fields, res, increment, boundsValue, u0ext, part, Result, returned>>

\* a correction with NaN in dfields[0] ends the loop
NRDiverged ==
    /\ pc = "nr_update"
    /\ CorrectionIsNaN(dfields)
    /\ exit' = "diverged"
    /\ pc' = "nr_return"
    /\ UNCHANGED <<evl, mpc, args, heap, loc, calls, entry, log>>
    /\ UNCHANGED <<fields, res, increment, boundsValue, u0ext, part, Result, returned>>

\* otherwise every field adds its part of the correction, in place
NRUpdate ==
    /\ pc = "nr_update"
    /\ ~CorrectionIsNaN(dfields)
    /\ heap' = [heap EXCEPT ![fields] = ApplyCorrection(heap[fields], dfields)]
    /\ pc' = "nr_eval"
    /\ UNCHANGED <<evl, mpc, args, loc, hist>>
    /\ UNCHANGED <<fields, res, increment, boundsValue, u0ext, part, Result, returned>>

\* F, f and r from the updated fields; rref and norm_r
NREval ==
    /\ pc = "nr_eval"
    /\ LET vals == heap[fields]
           F1 == DefGrad(vals)
           f1 == fun_f(mat, F1, Interp(vals))
           r1 == AssembleVector(f1)
           ref == RrefFallback(NormSq(Take(r1, PassedDofs(part).dof0)))
       IN  /\ F' = F1
           /\ f' = f1
           /\ r' = r1
           /\ rref' = ref
           /\ norm_r' = NormRatio(r1, PassedDofs(part).dof1, ref)
    /\ pc' = "nr_conv"
    /\ UNCHANGED <<evl, mpc, args, heap, hist, A, K, converged, iteration, dfields>>
    /\ UNCHANGED <<fields, res, increment, boundsValue, u0ext, part, Result, returned>>

\* norm_r < tol: converged = True and the loop ends
NRConverged ==
    /\ pc = "nr_conv"
    /\ Below(norm_r, tol)
    /\ converged' = TRUE
    /\ exit' = "converged"
    /\ pc' = "nr_return"
    /\ UNCHANGED <<evl, mpc, args, heap, calls, entry, log>>
    /\ UNCHANGED <<F, f, A, r, K, iteration, dfields, rref, norm_r>>
    /\ UNCHANGED <<fields, res, increment, boundsValue, u0ext, part, Result, returned>>

\* otherwise A and K from the updated fields, and the next pass
NRContinue ==
    /\ pc = "nr_conv"
    /\ ~Below(norm_r, tol)
    /\ LET vals == heap[fields]
           A1 == fun_A(mat, F, Interp(vals))
       IN  /\ A' = A1
           /\ K' = Reassembled(K, AssembleMatrix(A1))
    /\ pc' = "nr_loop"
    /\ UNCHANGED <<evl, mpc, args, heap, hist>>
    /\ UNCHANGED <<F, f, r, converged, iteration, dfields, rref, norm_r>>
    /\ UNCHANGED <<fields, res, increment, boundsValue, u0ext, part, Result, returned>>

\* return Result(copy(fields), r, K, F, f, A, unstack, converged):
\* the deep copy is a new fields object
NRReturn ==
    /\ pc = "nr_return"
    /\ heap' = Append(heap, heap[fields])
    /\ Result' = [fields |-> Len(heap) + 1, r |-> r, K |-> K, F |-> F, f |-> f,
                  A |-> A, unstack |-> PassedDofs(part).unstack, converged |-> converged]
    /\ log' = Append(log, [increment |-> increment, entry |-> entry.vals,
                           obj |-> fields, final |-> heap[fields],
                           converged |-> converged, iterations |-> iteration,
                           exit |-> exit, part |-> entry.part])
    /\ pc' = "inc_commit"
    /\ UNCHANGED <<evl, mpc, args, loc, calls, entry, exit>>
    /\ UNCHANGED <<fields, res, increment, boundsValue, u0ext, part, returned>>

\* ------------------------------------------------------- incsolve, continued
\* fields = Result.fields; not converged: increment = increment - 1; break
IncAbort ==
    /\ pc = "inc_commit"
    /\ StopsAfter(Result)
    /\ fields' = Result.fields
    /\ increment' = increment - 1
    /\ pc' = "savehistory"
    /\ UNCHANGED <<evl, mpc, args, heap, loc, hist>>
    /\ UNCHANGED <<res, boundsValue, u0ext, part, Result, returned>>

\* fields = Result.fields; converged: res.append(Result); save(...)
IncCommit ==
    /\ pc = "inc_commit"
    /\ ~StopsAfter(Result)
    /\ fields' = Result.fields
    /\ res' = RecordsAfter(res, Result)
    /\ pc' = "inc_next"
    /\ UNCHANGED <<evl, mpc, args, heap, loc, hist>>
    /\ UNCHANGED <<increment, boundsValue, u0ext, part, Result, returned>>

\* savehistory(region, res, filename); return res
IncReturn ==
    /\ pc = "savehistory"
    /\ returned' = res
    /\ pc' = "done"
    /\ UNCHANGED <<evl, mpc, args, heap, loc, hist>>
    /\ UNCHANGED <<fields, res, increment, boundsValue, u0ext, part, Result>>

Next ==
    \/ IncStart
    \/ IncSetValue
    \/ IncExhausted
    \/ IncApply
    \/ NREntry
    \/ NRSolve
    \/ NRSolveFails
    \/ NRExhausted
    \/ NRDiverged
    \/ NRUpdate
    \/ NREval
    \/ NRConverged
    \/ NRContinue
    \/ NRReturn
    \/ IncAbort
    \/ IncCommit
    \/ IncReturn

Spec == Init /\ [][Next]_vars

\* the statements in execution
Running ==
    {"start", "inc_next", "inc_apply", "nr_entry", "nr_loop", "nr_update",
     "nr_eval", "nr_conv", "nr_return", "inc_commit", "savehistory"}

\* the program has returned, or an error has left it
Ended == {"done", "raised"}

\* the thread of control moves on from a statement in execution
Progress == pc \in Running /\ pc' \in Running \cup Ended /\ pc' # pc

\* the interpreter runs the single thread of control until the program ends:
\* control does not stay forever at a statement in execution.  Every step of
\* Next changes pc and every statement in execution enables a step of Next.
FairSpec == Spec /\ WF_pc(Progress)

\* the model never rounds a quotient and never leaves the bar's layout
TypeOK ==
    /\ pc \in Running \cup Ended
    /\ \A o \in 1..Len(heap) :
          /\ Len(heap[o]) = 2
          /\ Len(heap[o][1]) = FieldSizes[1]
          /\ Len(heap[o][2]) = FieldSizes[2]
          /\ ~AnyNaN(heap[o][1])
    /\ pc \in {"nr_update"} =>
          LET d == Det(partition(heap[fields], r, K, part.dof1, part.dof0).K11)
          IN  isnan(d) \/ d = 1 \/ d = -1

\* ============================================== constitutive evaluators
\* A floating point number of the evaluators is a fraction n/d in lowest
\* terms with d > 0; the result of an operation is computed exactly and, when
\* its denominator exceeds Precision, rounded down to a multiple of
\* 1/Precision.  The values that are not finite have d = 0: inf is 1/0, -inf
\* is -1/0 and nan is 0/0, with the arithmetic of IEEE 754 (x / 0 is inf for
\* x # 0 and nan for x = 0, x / inf is 0, inf - inf and 0 * inf are nan).
Precision == 1000

RECURSIVE gcd(_, _)
gcd(a, b) == IF b = 0 THEN a ELSE gcd(b, a % b)

qnan == [n |-> 0, d |-> 0]

\* inf with the sign s
qinf(s) == [n |-> s, d |-> 0]

finite(x) == x.d # 0

qisnan(x) == x.d = 0 /\ x.n = 0

qsign(x) == IF x.n < 0 THEN -1 ELSE IF x.n > 0 THEN 1 ELSE 0

\* n/d in lowest terms, d > 0
Lowest(n, d) ==
    LET g == gcd(IF n < 0 THEN 0 - n ELSE n, d)
    IN  [n |-> n \div g, d |-> d \div g]

Q(n, d) ==
    IF d = 0 THEN qnan
    ELSE LET x == IF d < 0 THEN Lowest(0 - n, 0 - d) ELSE Lowest(n, d)
         IN  IF x.d <= Precision THEN x
             ELSE Lowest((x.n \div x.d) * Precision + ((x.n % x.d) * Precision) \div x.d,
                         Precision)

qadd(x, y) ==
    IF qisnan(x) \/ qisnan(y) THEN qnan
    ELSE IF ~finite(x) THEN (IF ~finite(y) /\ y.n # x.n THEN qnan ELSE x)
    ELSE IF ~finite(y) \/ x.n = 0 THEN y
    ELSE IF y.n = 0 THEN x
    ELSE LET g == gcd(x.d, y.d)
         IN  Q(x.n * (y.d \div g) + y.n * (x.d \div g), (x.d \div g) * y.d)

qneg(x) == [n |-> 0 - x.n, d |-> x.d]

qsub(x, y) == qadd(x, qneg(y))

qmul(x, y) ==
    IF qisnan(x) \/ qisnan(y) THEN qnan
    ELSE IF ~finite(x) \/ ~finite(y)
    THEN (IF x.n = 0 \/ y.n = 0 THEN qnan ELSE qinf(qsign(x) * qsign(y)))
    ELSE IF x.n = 0 \/ y.n = 0 THEN [n |-> 0, d |-> 1]
    ELSE LET a == Q(x.n, y.d)
             b == Q(y.n, x.d)
         IN  Q(a.n * b.n, a.d * b.d)

\* x / y: the quotient is reduced before it is rounded
qdiv(x, y) ==
    IF qisnan(x) \/ qisnan(y) THEN qnan
    ELSE IF ~finite(x)
    THEN (IF ~finite(y) THEN qnan
          ELSE qinf(qsign(x) * (IF y.n < 0 THEN -1 ELSE 1)))
    ELSE IF ~finite(y) THEN Q(0, 1)
    ELSE IF y.n = 0 THEN (IF x.n = 0 THEN qnan ELSE qinf(qsign(x)))
    ELSE IF x.n = 0 THEN x
    ELSE LET a == Lowest(x.n, IF y.n < 0 THEN 0 - y.n ELSE y.n)
             b == Lowest(y.d, x.d)
         IN  Q(qsign(y) * a.n * b.n, a.d * b.d)

\* x < y; a comparison with nan is false
qlt(x, y) ==
    /\ ~qisnan(x)
    /\ ~qisnan(y)
    /\ IF finite(x) /\ finite(y) THEN x.n * y.d < y.n * x.d
       ELSE x # y /\ ((~finite(x) /\ x.n < 0) \/ (~finite(y) /\ y.n > 0))

\* tensortrax.math: abs, maximum, sqrt, exp, if_else
tensor_abs(x) == IF x.n < 0 THEN qneg(x) ELSE x

maximum(x, y) ==
    IF qisnan(x) \/ qisnan(y) THEN qnan ELSE IF qlt(x, y) THEN y ELSE x

\* the square root, rounded down to one decimal place
sqrt(x) ==
    IF qisnan(x) \/ x.n < 0 THEN qnan
    ELSE IF ~finite(x) THEN x
    ELSE LET top == 10 * ((x.n \div x.d) + 1)
             k == CHOOSE j \in 0..top :
                     /\ j * j * x.d <= 100 * x.n
                     /\ (j + 1) * (j + 1) * x.d > 100 * x.n
         IN  Q(k, 10)

\* the exponential: 1 at 0, elsewhere its series to second order
exp(x) ==
    IF qisnan(x) THEN qnan
    ELSE IF ~finite(x) THEN (IF x.n > 0 THEN x ELSE Q(0, 1))
    ELSE IF x.n = 0 THEN Q(1, 1)
    ELSE qadd(Q(1, 1), qadd(x, qdiv(qmul(x, x), Q(2, 1))))

\* both branches are values computed by the caller; the condition selects
if_else(cond, x, y) == IF cond THEN x ELSE y

\* sigmoid(x) = 1 / sqrt(1 + x**2)
sigmoid(x) == qdiv(Q(1, 1), sqrt(qadd(Q(1, 1), qmul(x, x))))

\* material parameters α, β, γ from p and the history invariant CTS
alpha(p, CTS) == qadd(p[1], qmul(p[2], sigmoid(qmul(p[3], CTS))))

beta(p, CTS) == qmul(p[4], sigmoid(qmul(p[3], CTS)))

gamma(p, CTS) ==
    qmul(qmul(p[5], CTS), qsub(Q(1, 1), sigmoid(qdiv(CTS, p[6]))))

\* ---- tensors: 3 x 3 arrays, a tuple of three rows
\* the array with the entries e[i][j], a tuple of its rows
Mat(e) ==
    << << e[1][1], e[1][2], e[1][3] >>,
       << e[2][1], e[2][2], e[2][3] >>,
       << e[3][1], e[3][2], e[3][3] >> >>

\* the diagonal array of a, b, c
Diag(a, b, c) ==
    << << a, Q(0, 1), Q(0, 1) >>,
       << Q(0, 1), b, Q(0, 1) >>,
       << Q(0, 1), Q(0, 1), c >> >>

Zero3 == Diag(Q(0, 1), Q(0, 1), Q(0, 1))

One3 == Diag(Q(1, 1), Q(1, 1), Q(1, 1))

\* A @ B, the matrix product: entry (i, j) is the sum over k of A[i, k] *
\* B[k, j], so that an entry that is not finite meets the zeros off the
\* diagonal of the other factor and leaves nan there
tdot(X, Y) ==
    Mat([i \in 1..3 |-> [j \in 1..3 |->
            qadd(qadd(qmul(X[i][1], Y[1][j]), qmul(X[i][2], Y[2][j])),
                 qmul(X[i][3], Y[3][j]))]])

\* A + B, A - B, s * A, A / s, entry by entry
tadd(X, Y) == Mat([i \in 1..3 |-> [j \in 1..3 |-> qadd(X[i][j], Y[i][j])]])

tsub(X, Y) == Mat([i \in 1..3 |-> [j \in 1..3 |-> qsub(X[i][j], Y[i][j])]])

tscale(s, X) == Mat([i \in 1..3 |-> [j \in 1..3 |-> qmul(s, X[i][j])]])

tover(X, s) == Mat([i \in 1..3 |-> [j \in 1..3 |-> qdiv(X[i][j], s)]])

\* tensortrax.math.special: dev, sym, triu_1d, from_triu_1d
\* A - trace(A) / 3 * eye(3)
dev(X) ==
    tsub(X, tscale(qdiv(qadd(X[1][1], qadd(X[2][2], X[3][3])), Q(3, 1)), One3))

\* (A + transpose(A)) / 2
sym(X) ==
    Mat([i \in 1..3 |-> [j \in 1..3 |-> qdiv(qadd(X[i][j], X[j][i]), Q(2, 1))]])

\* components 11, 12, 13, 22, 23, 33
triu_1d(X) == << X[1][1], X[1][2], X[1][3], X[2][2], X[2][3], X[3][3] >>

from_triu_1d(v) ==
    << << v[1], v[2], v[3] >>,
       << v[2], v[4], v[5] >>,
       << v[3], v[5], v[6] >> >>

\* tensortrax.math.linalg: det, inv, eigvalsh, expm
\* the six products of the rule of Sarrus
det(X) ==
    qsub(qsub(qsub(qadd(qadd(qmul(qmul(X[1][1], X[2][2]), X[3][3]),
                             qmul(qmul(X[1][2], X[2][3]), X[3][1])),
                        qmul(qmul(X[1][3], X[2][1]), X[3][2])),
                   qmul(qmul(X[3][1], X[2][2]), X[1][3])),
              qmul(qmul(X[3][2], X[2][3]), X[1][1])),
         qmul(qmul(X[3][3], X[2][1]), X[1][2]))

\* the transposed cofactors over the determinant; i + 1 and i + 2 are taken
\* cyclically in 1..3
inv(X) ==
    Mat([i \in 1..3 |-> [j \in 1..3 |->
          qdiv(qsub(qmul(X[(j % 3) + 1][(i % 3) + 1],
                         X[((j + 1) % 3) + 1][((i + 1) % 3) + 1]),
                    qmul(X[(j % 3) + 1][((i + 1) % 3) + 1],
                         X[((j + 1) % 3) + 1][(i % 3) + 1])),
               det(X))]])

\* eigenvalues in ascending order; the arrays of a call have no finite
\* entry other than 0 off the diagonal (C is given in its principal axes),
\* and their eigenvalues are the diagonal entries
eigvalsh(X) ==
    IF \E i \in 1..3 : \E j \in 1..3 : ~finite(X[i][j])
    THEN << qnan, qnan, qnan >>
    ELSE LET lo == CHOOSE i \in 1..3 : \A j \in 1..3 : ~qlt(X[j][j], X[i][i])
             hi == CHOOSE i \in 1..3 :
                      i # lo /\ \A j \in 1..3 : j # lo => ~qlt(X[i][i], X[j][j])
             mid == CHOOSE i \in 1..3 : i # lo /\ i # hi
         IN  << X[lo][lo], X[mid][mid], X[hi][hi] >>

\* the exponential of the eigenvalues in the eigenvectors of the array: of
\* the diagonal entries, and nan in every entry where an entry is not finite
expm(X) ==
    IF \E i \in 1..3 : \E j \in 1..3 : ~finite(X[i][j])
    THEN Mat([i \in 1..3 |-> [j \in 1..3 |-> qnan]])
    ELSE Diag(exp(X[1][1]), exp(X[2][2]), exp(X[3][3]))

\* I3 ** (-1 / 3): exact for the cubes of the fractions a/b with a, b <= 4,
\* rounded elsewhere; nan for a negative number, 0 for inf and for -inf, inf
\* for 0.  For a finite y >= 1 the rounded value is the largest k/Precision
\* whose cube times y is at most 1
InvCbrt(x) ==
    LET large(y) ==
            LET top == ((Precision * Precision * Precision) \div y.n) * y.d
                          + (((Precision * Precision * Precision) % y.n) * y.d) \div y.n
                k == CHOOSE j \in 0..Precision :
                         /\ j * j * j <= top
                         /\ j = Precision \/ (j + 1) * (j + 1) * (j + 1) > top
            IN  Q(k, Precision)
    IN  IF qisnan(x) THEN qnan
        ELSE IF ~finite(x) THEN Q(0, 1)
        ELSE IF x.n < 0 THEN qnan
        ELSE IF x.n = 0 THEN qinf(1)
        ELSE IF \E c \in {Q(a, b) : a \in 1..4, b \in 1..4} :
                   qmul(x, qmul(c, qmul(c, c))) = Q(1, 1)
        THEN CHOOSE c \in {Q(a, b) : a \in 1..4, b \in 1..4} :
                   qmul(x, qmul(c, qmul(c, c))) = Q(1, 1)
        ELSE IF x.n >= x.d THEN large(x)
        ELSE qdiv(Q(1, 1), large(Q(x.d, x.n)))

\* np.concatenate of the parts
RECURSIVE Concat(_)
Concat(parts) == IF Len(parts) = 0 THEN <<>> ELSE parts[1] \o Concat(Tail(parts))

\* a part of the new state is not finite
StackFails(parts) ==
    \E k \in 1..Len(parts) : \E i \in 1..Len(parts[k]) : ~finite(parts[k][i])

\* ---- the two evaluators
\* number of directions of the representative-directions variant: the
\* axes 1 and 2
NDir == 2

\* the history invariant without the maximum over the load history
NoRatchet(CT, CTSn) == CT

\* CTS = maximum(CTG, CTSn), CTS = maximum(CT, CTSn)
Ratchet(CT, CTSn) == maximum(CT, CTSn)

\* a state of zeros in place of the previous state
FallbackZeros(statevars) == [i \in 1..Len(statevars) |-> Q(0, 1)]

\* fallback=statevars
Fallback(statevars) == statevars

\* tensortrax.math.special.try_stack: the parts stacked to one vector, or
\* the fallback when the stacking fails
try_stack(parts, fallback) ==
    IF StackFails(parts) THEN fallback ELSE Concat(parts)

\* the state of the latest call in place of the argument
PrevStateKept(statevars) ==
    IF evals = <<>> THEN statevars ELSE evals[Len(evals)].new

\* `statevars`, from which the old state variables are extracted
PrevState(statevars) == statevars

\* real_to_dual(dψdC, C): the stress handed to the caller
real_to_dual(x) == x

\* morph, the statements in order; each takes the locals computed so far
\* CG, invC, dC
MorphStrain(C, Cn) ==
    [C |-> C,
     CG |-> tscale(InvCbrt(det(C)), C),
     invC |-> inv(C),
     dC |-> tsub(C, Cn)]

\* CTG = λCG[-1] - λCG[0]; LG = sym(dev(invC @ dC)) @ CG
MorphInvariants(a) ==
    a @@ [CTG |-> qsub(eigvalsh(a.CG)[3], eigvalsh(a.CG)[1]),
          LG |-> tdot(sym(dev(tdot(a.invC, a.dC))), a.CG)]

\* CTS = maximum(CTG, CTSn); LTG = λLG[-1] - λLG[0]
MorphHistory(a, CTSn) ==
    a @@ [CTS |-> Ratchet(a.CTG, CTSn),
          LTG |-> qsub(eigvalsh(a.LG)[3], eigvalsh(a.LG)[1])]

\* α, β, γ; LG_LTG = if_else(LTG > 0, LG / LTG, LG)
MorphParameters(a, p) ==
    a @@ [al |-> alpha(p, a.CTS),
          be |-> beta(p, a.CTS),
          ga |-> gamma(p, a.CTS),
          LG_LTG |-> if_else(qlt(Q(0, 1), a.LTG), tover(a.LG, a.LTG), a.LG)]

\* SL = (γ * expm(p[6] * LG_LTG * CTG / CTS) + p[7] * LG_LTG) @ invC
MorphLimiting(a, p) ==
    a @@ [SL |-> tdot(tadd(tscale(a.ga,
                                  expm(tover(tscale(a.CTG, tscale(p[7], a.LG_LTG)),
                                             a.CTS))),
                           tscale(p[8], a.LG_LTG)),
                      a.invC)]

\* SA = (SAn + β * LTG * SL) / (1 + β * LTG)
MorphOverstress(a, SAn) ==
    a @@ [SA |-> tover(tadd(SAn, tscale(qmul(a.be, a.LTG), a.SL)),
                       qadd(Q(1, 1), qmul(a.be, a.LTG)))]

\* dψdC = (2 * α * dev(CG) @ invC + dev(SA @ C) @ invC) / 2
MorphStress(a) ==
    tover(tadd(tdot(tscale(qmul(Q(2, 1), a.al), dev(a.CG)), a.invC),
               tdot(dev(tdot(a.SA, a.C)), a.invC)),
          Q(2, 1))

\* what a call hands back: the stress and the new state, together with the
\* invariants of the call and with the state variables it computed (cand)
MorphOut(a, statevars) ==
    [stress |-> real_to_dual(MorphStress(a)),
     CT |-> <<a.CTG>>,
     LT |-> <<a.LTG>>,
     cand |-> Concat(<< <<a.CTS>>, triu_1d(a.C), triu_1d(a.SA) >>),
     stacked |-> ~StackFails(<< <<a.CTS>>, triu_1d(a.C), triu_1d(a.SA) >>),
     statevars_new |-> try_stack(<< <<a.CTS>>, triu_1d(a.C), triu_1d(a.SA) >>,
                                 Fallback(statevars))]

\* morph(C, statevars, p)
morph(C, statevars, p) ==
    MorphOut(
        MorphOverstress(
            MorphLimiting(
                MorphParameters(
                    MorphHistory(
                        MorphInvariants(
                            MorphStrain(C, from_triu_1d(SubSeq(PrevState(statevars), 2, 7)))),
                        PrevState(statevars)[1]),
                    p),
                p),
            from_triu_1d(SubSeq(PrevState(statevars), 8, 13))),
        statevars)

\* morph_uniaxial for one direction, the statements in order
\* CT = abs(λ**2 - 1 / λ); L1; L2
UniaxialStrain(lam, lamn) ==
    [lam |-> lam,
     CT |-> tensor_abs(qsub(qmul(lam, lam), qdiv(Q(1, 1), lam))),
     L1 |-> qdiv(qmul(Q(2, 1),
                      qsub(qdiv(qmul(qmul(lam, lam), lam), lamn), qmul(lamn, lamn))),
                 Q(3, 1)),
     L2 |-> qdiv(qsub(qdiv(qmul(lamn, lamn), qmul(qmul(lam, lam), lam)),
                      qdiv(Q(1, 1), lamn)),
                 Q(3, 1))]

\* CTS = maximum(CT, CTSn); LT = abs(L1 - L2)
UniaxialHistory(a, CTSn) ==
    a @@ [CTS |-> Ratchet(a.CT, CTSn),
          LT |-> tensor_abs(qsub(a.L1, a.L2))]

\* α, β, γ; L1_LT, L2_LT, CT_CTS
UniaxialParameters(a, p, epsilon) ==
    a @@ [al |-> alpha(p, a.CTS),
          be |-> beta(p, a.CTS),
          ga |-> gamma(p, a.CTS),
          L1_LT |-> qdiv(a.L1, qadd(epsilon, a.LT)),
          L2_LT |-> qdiv(a.L2, qadd(epsilon, a.LT)),
          CT_CTS |-> qdiv(a.CT, qadd(epsilon, a.CTS))]

\* SL1, SL2
UniaxialLimiting(a, p) ==
    a @@ [SL1 |-> qdiv(qadd(qmul(a.ga, exp(qmul(qmul(p[7], a.L1_LT), a.CT_CTS))),
                            qmul(p[8], a.L1_LT)),
                       qmul(a.lam, a.lam)),
          SL2 |-> qmul(qadd(qmul(a.ga, exp(qmul(qmul(p[7], a.L2_LT), a.CT_CTS))),
                            qmul(p[8], a.L2_LT)),
                       a.lam)]

\* SA1, SA2
UniaxialOverstress(a, SA1n, SA2n) ==
    a @@ [SA1 |-> qdiv(qadd(SA1n, qmul(qmul(a.be, a.LT), a.SL1)),
                       qadd(Q(1, 1), qmul(a.be, a.LT))),
          SA2 |-> qdiv(qadd(SA2n, qmul(qmul(a.be, a.LT), a.SL2)),
                       qadd(Q(1, 1), qmul(a.be, a.LT)))]

\* dψdλ = (2 * α + SA1) * λ - (2 * α + SA2) / λ**2
UniaxialStress(a) ==
    qsub(qmul(qadd(qmul(Q(2, 1), a.al), a.SA1), a.lam),
         qdiv(qadd(qmul(Q(2, 1), a.al), a.SA2), qmul(a.lam, a.lam)))

\* direction k of a call with the stretches lam and the old state
UniaxialDirection(k, lam, old, p, epsilon) ==
    UniaxialOverstress(
        UniaxialLimiting(
            UniaxialParameters(
                UniaxialHistory(
                    UniaxialStrain(lam[k], qadd(old[NDir + k], Q(1, 1))),
                    old[k]),
                p, epsilon),
            p),
        old[2 * NDir + k], old[3 * NDir + k])

\* the stress and the new state from the locals d of the directions
UniaxialOut(d, statevars) ==
    [stress |-> [k \in 1..NDir |-> qmul(Q(5, 1), real_to_dual(UniaxialStress(d[k])))],
     CT |-> [k \in 1..NDir |-> d[k].CT],
     LT |-> [k \in 1..NDir |-> d[k].LT],
     cand |-> Concat(<< [k \in 1..NDir |-> d[k].CTS],
                        [k \in 1..NDir |-> qsub(d[k].lam, Q(1, 1))],
                        [k \in 1..NDir |-> d[k].SA1],
                        [k \in 1..NDir |-> d[k].SA2] >>),
     stacked |-> ~StackFails(<< [k \in 1..NDir |-> d[k].CTS],
                                [k \in 1..NDir |-> qsub(d[k].lam, Q(1, 1))],
                                [k \in 1..NDir |-> d[k].SA1],
                                [k \in 1..NDir |-> d[k].SA2] >>),
     statevars_new |-> try_stack(<< [k \in 1..NDir |-> d[k].CTS],
                                    [k \in 1..NDir |-> qsub(d[k].lam, Q(1, 1))],
                                    [k \in 1..NDir |-> d[k].SA1],
                                    [k \in 1..NDir |-> d[k].SA2] >>,
                                 Fallback(statevars))]

\* morph_uniaxial(λ, statevars, p, ε), with one entry per direction in λ and
\* in each of the four blocks of statevars
morph_uniaxial(lam, statevars, p, epsilon) ==
    UniaxialOut(<< UniaxialDirection(1, lam, PrevState(statevars), p, epsilon),
                   UniaxialDirection(2, lam, PrevState(statevars), p, epsilon) >>,
                statevars)

\* the stretch of direction k, one of the axes: the root of C[k, k], exact
\* for the squares of the fractions a/b with a, b <= 4, rounded elsewhere
AxisStretch(x) ==
    IF qisnan(x) \/ x.n < 0 THEN qnan
    ELSE IF ~finite(x) \/ x.n = 0 THEN x
    ELSE IF \E c \in {Q(a, b) : a \in 1..4, b \in 1..4} : qmul(c, c) = x
    THEN CHOOSE c \in {Q(a, b) : a \in 1..4, b \in 1..4} : qmul(c, c) = x
    ELSE sqrt(x)

\* the stresses of the directions summed up to a tensor
Homogenize(out, lam) ==
    [stress |-> Diag(qdiv(out.stress[1], qmul(Q(2 * NDir, 1), lam[1])),
                     qdiv(out.stress[2], qmul(Q(2 * NDir, 1), lam[2])),
                     Q(0, 1)),
     CT |-> out.CT,
     LT |-> out.LT,
     cand |-> out.cand,
     stacked |-> out.stacked,
     statevars_new |-> out.statevars_new]

\* microsphere.affine_stretch_statevars(C, statevars, f, kwargs): the
\* stretches of the directions from C, the law f on them, and the stresses
\* of the directions summed up to a tensor
affine_stretch_statevars(C, statevars, p, epsilon) ==
    Homogenize(morph_uniaxial(<< AxisStretch(C[1][1]), AxisStretch(C[2][2]) >>,
                              statevars, p, epsilon),
               << AxisStretch(C[1][1]), AxisStretch(C[2][2]) >>)

\* morph_representative_directions(C, statevars, p, ε)
morph_representative_directions(C, statevars, p, epsilon) ==
    affine_stretch_statevars(C, statevars, p, epsilon)

\* ---- calls of the evaluators
\* largest number of evaluator calls in a run
MaxEvals == 3

\* an isochoric uniaxial stretch lam along axis k
Uniaxial(lam, k) ==
    Mat([i \in 1..3 |-> [j \in 1..3 |-> IF i # j THEN Q(0, 1)
                      ELSE IF i = k THEN qmul(lam, lam) ELSE qdiv(Q(1, 1), lam)]])

\* right Cauchy-Green tensors passed to morph: undeformed, stretched along
\* axis 1 by 2 and by 4, compressed along axis 2, and a change of volume.
\* Their components are powers of two: the reciprocals and products that
\* morph forms from them are exact in floating point, so that the invariant
\* LTG of a call is zero in the code exactly where it is zero here
Strains ==
    { One3, Uniaxial(Q(2, 1), 1), Uniaxial(Q(4, 1), 1), Uniaxial(Q(1, 2), 2),
      tscale(Q(4, 1), One3) }

\* right Cauchy-Green tensors passed to morph_representative_directions
StrainsRD ==
    { One3,
      Diag(Q(4, 1), Q(1, 4), Q(1, 1)),
      Diag(Q(1, 4), Q(4, 1), Q(1, 1)),
      Diag(Q(9, 4), Q(1, 1), Q(4, 9)) }

\* stretches passed to morph_uniaxial, one per direction
Stretches ==
    { << Q(1, 1), Q(1, 1) >>, << Q(6, 5), Q(1, 1) >>, << Q(2, 1), Q(1, 2) >>,
      << Q(1, 1), Q(2, 1) >> }

\* parameter lists p: elastic only, and with overstress
Params ==
    { << Q(1, 1), Q(0, 1), Q(0, 1), Q(0, 1), Q(0, 1), Q(1, 1), Q(0, 1), Q(0, 1) >>,
      << Q(1, 1), Q(1, 1), Q(0, 1), Q(1, 1), Q(0, 1), Q(1, 1), Q(0, 1), Q(1, 1) >> }

\* state vectors a caller starts from: zeros (nstatevars = 13), and the
\* undeformed strain as the strain of the previous state
Seeds ==
    { [i \in 1..13 |-> Q(0, 1)],
      <<Q(0, 1)>> \o triu_1d(One3) \o triu_1d(Zero3) }

SeedsRD == { [i \in 1..(4 * NDir) |-> Q(0, 1)] }

\* the state vectors a caller passes: the one it started from, or the one
\* returned by the latest call
Passed == {1, Len(states)}

\* the state vector returned: the object passed when it is the fallback,
\* a new object otherwise
Returned(s, out) ==
    IF ~out.stacked /\ out.statevars_new = states[s] THEN s ELSE Len(states) + 1

\* the entry of a call in `evals`
Record(strain, s, out) ==
    [strain |-> strain, inp |-> s, old |-> states[s], out |-> Returned(s, out),
     new |-> out.statevars_new, stress |-> out.stress, CT |-> out.CT,
     LT |-> out.LT, cand |-> out.cand, stacked |-> out.stacked]

\* the new state written into the vector that was passed
KeepInPlace(s, out) == [states EXCEPT ![s] = out.statevars_new]

\* the state-vector objects after a call: the new state is a new vector,
\* nothing is written to the vector passed
Keep(s, out) ==
    IF Returned(s, out) = s THEN states ELSE Append(states, out.statevars_new)

\* a call has returned `out` for the strain and the state object s
Called(strain, s, out) ==
    /\ states' = Keep(s, out)
    /\ evals' = Append(evals, Record(strain, s, out))

CallMorph ==
    /\ umat = "morph"
    /\ Len(evals) < MaxEvals
    /\ \E C \in Strains, s \in Passed :
          Called(C, s, morph(C, states[s], param))
    /\ UNCHANGED <<umat, param, eps, args, heap, drv, loc, hist, mpc>>

\* With ε = 0 the quotients L1 / (ε + LT) and L2 / (ε + LT) are 0 / 0 where
\* LT is exactly zero.  For a stretch whose denominator is a power of two
\* the differences that make up LT are exact in floating point, and LT is
\* zero in the code exactly where it is zero here; the 6/5 of Stretches is
\* not such a stretch and is passed with ε > 0 only
CallUniaxial ==
    /\ umat = "morph_uniaxial"
    /\ Len(evals) < MaxEvals
    /\ \E lam \in Stretches, s \in Passed :
          /\ eps = Q(0, 1) => \A k \in 1..NDir : lam[k].d \in {1, 2, 4, 8}
          /\ Called(lam, s, morph_uniaxial(lam, states[s], param, eps))
    /\ UNCHANGED <<umat, param, eps, args, heap, drv, loc, hist, mpc>>

CallRepresentativeDirections ==
    /\ umat = "morph_representative_directions"
    /\ Len(evals) < MaxEvals
    /\ \E C \in StrainsRD, s \in Passed :
          Called(C, s, morph_representative_directions(C, states[s], param, eps))
    /\ UNCHANGED <<umat, param, eps, args, heap, drv, loc, hist, mpc>>

EvalInit ==
    /\ umat \in {"morph", "morph_uniaxial", "morph_representative_directions"}
    /\ param \in Params
    /\ eps \in IF umat = "morph" THEN {Q(1, 10)} ELSE {Q(1, 10), Q(0, 1)}
    /\ states \in IF umat = "morph" THEN {<<v>> : v \in Seeds}
                  ELSE {<<v>> : v \in SeedsRD}
    /\ evals = <<>>
    /\ DriverAtRest
    /\ MpcAtRest

EvalNext == CallMorph \/ CallUniaxial \/ CallRepresentativeDirections

EvalSpec == EvalInit /\ [][EvalNext]_vars

\* ============================================== multi-point constraint
\* mesh.dim and the number of points of the mesh of the field
MeshDim == 2

MeshPoints == 3

\* indices = np.arange(self.mesh.ndof).reshape(self.mesh.points.shape):
\* the DOF of point p on axis ax
Index(p, ax) == (p - 1) * MeshDim + ax

\* self.mask = ~np.array(skip, dtype=bool)[: self.mesh.dim]
Mask(sk) == [ax \in 1..MeshDim |-> ~sk[ax]]

\* self.axes = np.arange(self.mesh.dim)[self.mask]
Axes(sk) == {ax \in 1..MeshDim : Mask(sk)[ax]}

\* N = self.multiplier * (-u[self.points] + u[self.centerpoint])
NForce(u, pts, c, m) ==
    [k \in 1..Len(pts) |-> [ax \in 1..MeshDim |-> m * ((0 - u[pts[k]][ax]) + u[c][ax])]]

\* N.sum(axis=0), the first k rows
RECURSIVE ColumnSum(_, _, _)
ColumnSum(N, ax, k) == IF k = 0 THEN 0 ELSE ColumnSum(N, ax, k - 1) + N[k][ax]

\* r = lil_matrix(u.shape); r[self.points] = -N;
\* r[self.centerpoint] = N.sum(axis=0)
Residual(u, pts, c, m) ==
    [p \in 1..MeshPoints |-> [ax \in 1..MeshDim |->
        IF p = c THEN ColumnSum(NForce(u, pts, c, m), ax, Len(pts))
        ELSE IF \E k \in 1..Len(pts) : pts[k] = p
        THEN 0 - NForce(u, pts, c, m)[CHOOSE k \in 1..Len(pts) : pts[k] = p][ax]
        ELSE 0]]

\* r.reshape(-1, 1)
Flatten(rr) ==
    [i \in 1..(MeshPoints * MeshDim) |->
        rr[((i - 1) \div MeshDim) + 1][((i - 1) % MeshDim) + 1]]

\* the loop over self.axes: for the DOFs t of the points and c of the
\* centerpoint on an axis, L[t, t] = eye * multiplier, L[t, c] = -multiplier,
\* L[c, t] = -multiplier, L[c, c] = multiplier * len(self.points)
Stiffness(pts, c, axes, m) ==
    [i \in 1..(MeshPoints * MeshDim) |-> [j \in 1..(MeshPoints * MeshDim) |->
        IF \E ax \in axes : i = Index(c, ax) /\ j = Index(c, ax)
        THEN m * Len(pts)
        ELSE IF \E ax \in axes : \E k \in 1..Len(pts) :
                   \/ i = Index(pts[k], ax) /\ j = Index(c, ax)
                   \/ i = Index(c, ax) /\ j = Index(pts[k], ax)
        THEN 0 - m
        ELSE IF \E ax \in axes : \E k \in 1..Len(pts) :
                   i = Index(pts[k], ax) /\ j = Index(pts[k], ax)
        THEN m
        ELSE 0]]

\* lists of distinct points constrained to the centerpoint c
PointLists(c) ==
    {pts \in SeqsUpTo((1..MeshPoints) \ {c}, MeshPoints - 1) :
        /\ Len(pts) > 0
        /\ \A a \in 1..Len(pts), b \in 1..Len(pts) : pts[a] = pts[b] => a = b}

\* values of the displacement field: undeformed, and two deformed states
FieldValues ==
    { << <<0, 0>>, <<0, 0>>, <<0, 0>> >>,
      << <<0, 0>>, <<1, 0>>, <<1, 2>> >>,
      << <<1, 1>>, <<0, 2>>, <<2, 0>> >> }

\* _vector(field): the field is replaced when one is passed, and
\* results.force is the residual of the constraint
MpcVector ==
    /\ \E u \in FieldValues \cup {values} :
          /\ values' = u
          /\ force' = Flatten(Residual(u, points, centerpoint, multiplier))
    /\ UNCHANGED <<skip, points, centerpoint, multiplier, stiffness>>
    /\ UNCHANGED <<args, heap, drv, loc, hist, evl>>

\* _matrix(field): the field is replaced when one is passed, and
\* results.stiffness is the stiffness of the constraint
MpcMatrix ==
    /\ \E u \in FieldValues \cup {values} : values' = u
    /\ stiffness' = Stiffness(points, centerpoint, Axes(skip), multiplier)
    /\ UNCHANGED <<skip, points, centerpoint, multiplier, force>>
    /\ UNCHANGED <<args, heap, drv, loc, hist, evl>>

\* MultiPointConstraint(field, points, centerpoint, skip, multiplier)
MpcInit ==
    /\ skip \in {<<a, b, FALSE>> : a \in BOOLEAN, b \in BOOLEAN}
    /\ centerpoint \in 1..MeshPoints
    /\ points \in PointLists(centerpoint)
    /\ multiplier \in {1, 3}
    /\ values \in FieldValues
    /\ force = <<>>
    /\ stiffness = <<>>
    /\ DriverAtRest
    /\ EvalAtRest

MpcNext == MpcVector \/ MpcMatrix

MpcSpec == MpcInit /\ [][MpcNext]_vars

\* ----------------------------------------------------------------- claims
\* the corrector call in progress or just finished, while `entry` is current
InCall == pc \in {"nr_loop", "nr_update", "nr_eval", "nr_conv", "nr_return"}

AllConverged == \A j \in 1..Len(log) : log[j].converged

\* C1: incsolve invokes the corrector for the increments 1, 2, ... in order,
\* up to and including the first one that does not converge and for none
\* after it; the returned list holds exactly one record per increment before
\* the first failure, in increment order, each with converged = true, and
\* its length equals len(move) exactly when no increment failed.
C1_StopsAtFirstFailure ==
    /\ calls = [i \in 1..Len(calls) |-> i]
    /\ Len(calls) <= Len(move)
    /\ \A j \in 1..Len(log) : ~log[j].converged => Len(calls) = j
    /\ pc = "done" =>
          /\ Len(log) = Len(calls)
          /\ AllConverged => Len(calls) = Len(move)
          /\ Len(returned) = Cardinality({j \in 1..Len(log) : log[j].converged})
          /\ \A k \in 1..Len(returned) :
                /\ returned[k].converged
                /\ log[k].increment = k
                /\ returned[k].fields = k + 1
                /\ heap[k + 1] # <<>>
          /\ (Len(returned) = Len(move)) <=> AllConverged

\* a run whose second increment failed after the first had converged
C1_Witness ==
    /\ pc = "done"
    /\ Len(move) = 2
    /\ Len(calls) = 2
    /\ Len(returned) = 1
    /\ ~log[2].converged

\* C2 (as claimed): the field values stored in the record of increment k
\* still equal the converged field values of increment k, whatever
\* increments have been run since.
C2_RecordsImmutable ==
    \A k \in 1..Len(res) : heap[res[k].fields] = log[k].final

\* C3 (as claimed): after incsolve has returned from a failed increment, the
\* fields object that increment worked on and the final baseline hold the
\* values from before the failed increment.
C3_FailedIncrementDiscarded ==
    (pc = "done" /\ Len(log) > 0 /\ ~log[Len(log)].converged) =>
        /\ heap[log[Len(log)].obj] = log[Len(log)].entry
        /\ heap[fields] = log[Len(log)].entry

\* the field values a corrector call started from
EntryOf(j) == IF j <= Len(log) THEN log[j].entry ELSE entry.vals

\* C4: the corrector call for increment n+1 starts from the field values
\* with which increment n converged, and no call starts from the values left
\* by a non-converged Newton run.
C4_StartsFromConverged ==
    \A j \in 2..Len(calls) :
        (j <= Len(log) \/ InCall \/ pc = "raised") =>
            /\ log[j - 1].converged
            /\ EntryOf(j) = log[j - 1].final

\* the second increment has started from values the first one had changed
C4_Witness ==
    /\ Len(calls) = 2
    /\ pc = "nr_loop"
    /\ iteration = 0
    /\ entry.vals = log[1].final
    /\ log[1].final # log[1].entry

\* C5 (as claimed): a correction with NaN in any component of any field is
\* added to no field, ends the loop in that iteration and leaves
\* converged = false.
C5_NaNCorrectionNotApplied ==
    [][(pc = "nr_update" /\ AnyNaN(Stack(dfields))) =>
            (heap' = heap /\ pc' = "nr_return" /\ ~converged')]_vars

\* radicands of norm(r[dof1]) and of norm(r[dof0]) for the residual
\* assembled from the current values of the fields
FreshResidual ==
    AssembleVector(fun_f(mat, DefGrad(heap[fields]), Interp(heap[fields])))

FreshFree == NormSq(Take(FreshResidual, part.dof1))

FreshRef == NormSq(Take(FreshResidual, part.dof0))

\* norm(r[dof1]) / rref < tol for the residual of the current values, with
\* rref = 1 in place of a zero norm(r[dof0])
RatioBelowTol ==
    /\ ~isnan(FreshFree)
    /\ ~isnan(FreshRef)
    /\ FreshFree < tol * tol * (IF FreshRef = 0 THEN 1 ELSE FreshRef)

RatioEqualsTol ==
    /\ ~isnan(FreshFree)
    /\ ~isnan(FreshRef)
    /\ FreshFree = tol * tol * (IF FreshRef = 0 THEN 1 ELSE FreshRef)

\* C6: after every applied correction the residual in use is the one of the
\* updated fields, and newtonrhapson sets converged = true and leaves the
\* loop if and only if norm(r[dof1]) / rref < tol; otherwise, also when the
\* ratio equals tol, it stays not converged and goes on with the loop.
C6_ConvergesIffBelowTol ==
    [][pc = "nr_conv" =>
            /\ r = FreshResidual
            /\ (converged' /\ pc' = "nr_return") <=> RatioBelowTol
            /\ (~converged' /\ pc' = "nr_loop") <=> ~RatioBelowTol]_vars

\* the convergence test is reached with a ratio exactly equal to tol
C6_Witness ==
    /\ pc = "nr_loop"
    /\ iteration > 0
    /\ ~converged
    /\ RatioEqualsTol

\* C7: the reference norm used as divisor is never zero; when the norm of
\* r[dof0] is exactly zero, rref is 1 and the ratio is norm(r[dof1]).
C7_RrefNeverZero ==
    pc = "nr_conv" =>
        /\ rref # 0
        /\ norm_r.den # 0
        /\ NormSq(Take(r, part.dof0)) = 0 =>
              /\ rref = 1
              /\ norm_r = [num |-> NormSq(Take(r, part.dof1)), den |-> 1]

\* the fallback is used with a residual that is not zero on the free DOFs
C7_Witness ==
    /\ pc = "nr_conv"
    /\ NormSq(Take(r, part.dof0)) = 0
    /\ rref = 1
    /\ ~isnan(norm_r.num)
    /\ norm_r.num > 0

\* the way a corrector call that returns has left its loop
ExitConsistent ==
    /\ exit \in {"converged", "diverged", "maxiter"}
    /\ (exit = "converged") <=> converged
    /\ (exit = "diverged") => (CorrectionIsNaN(dfields) /\ iteration <= maxiter)
    /\ (exit = "maxiter") => iteration = maxiter

\* C8 (as claimed): newtonrhapson performs at most maxiter solve-and-update
\* iterations and every call ends in exactly one of Converged (converged =
\* true), Diverged (NaN correction, converged = false) and MaxIterExceeded
\* (maxiter iterations, converged = false): every call that was entered
\* returns, in one of these three states; and incsolve ends by returning.
C8_EndsInOneOfThree ==
    /\ [](iteration <= maxiter)
    /\ [](pc = "nr_return" => ExitConsistent)
    /\ [](pc = "nr_entry" => <>(pc = "nr_return"))
    /\ <>(pc = "done")

\* what holds of the loop with the error of the solve counted as an ending:
\* at most maxiter iterations, a call that returns has left the loop by
\* exactly one of the three exits, and every call and every run ends
TerminatesOrRaises ==
    /\ [](iteration <= maxiter)
    /\ [](pc = "nr_return" => ExitConsistent)
    /\ [](pc = "nr_entry" => <>(pc \in {"inc_commit", "raised"}))
    /\ <>(pc \in Ended)

\* the corrector was entered in equilibrium and with no change of the
\* prescribed values
ZeroLoad ==
    /\ \A i \in 1..Len(entry.r) : entry.r[i] = 0
    /\ entry.u0ext = Take(Stack(entry.vals), part.dof0)

\* the reduced tangent at the entry is finite and invertible
EntrySolvable ==
    LET sys == partition(entry.vals, entry.r, entry.K, part.dof1, part.dof0)
    IN  /\ ~isnan(Det(sys.K11))
        /\ Det(sys.K11) # 0
        /\ \A a \in 1..Len(sys.K10) : ~AnyNaN(sys.K10[a])

\* C9 (as claimed): entered in equilibrium and with no change of the
\* prescribed values, the corrector returns converged = true after exactly
\* one iteration, with the field values unchanged.
C9_ZeroLoadOneIteration ==
    /\ (pc = "nr_return" /\ ZeroLoad) =>
          (converged /\ iteration = 1 /\ heap[fields] = entry.vals)
    /\ (pc = "raised") => ~ZeroLoad

\* C9 (amended): the same, provided maxiter >= 1, tol > 0 and the reduced
\* tangent is finite and not singular; the correction applied is zero.
C9_ZeroLoadOneIterationSolvable ==
    ((InCall \/ pc = "raised") /\ ZeroLoad /\ maxiter >= 1 /\ tol > 0 /\ EntrySolvable) =>
        /\ pc # "raised"
        /\ iteration <= 1
        /\ heap[fields] = entry.vals
        /\ pc \in {"nr_update", "nr_eval", "nr_conv", "nr_return"} =>
              \A i \in 1..NDof : Stack(dfields)[i] = 0
        /\ pc = "nr_conv" => Below(norm_r, tol)
        /\ pc = "nr_return" => (converged /\ iteration = 1)

\* a second increment with the target of the first, entered in the
\* equilibrium the first one converged to, has returned
C9_Witness ==
    /\ pc = "nr_return"
    /\ ZeroLoad
    /\ EntrySolvable
    /\ Len(calls) = 2
    /\ log[1].converged
    /\ iteration = 1
    /\ converged

\* C10 (as claimed): a solve that fails on a singular reduced tangent ends
\* the corrector call as a divergence, with converged = false, so that
\* incsolve goes on to return the records of the converged increments.
C10_SingularIsDivergence ==
    [][(pc = "nr_loop" /\ LoopHasNext(iteration, maxiter)
          /\ Singular(partition(heap[fields], r, K, part.dof1, part.dof0))) =>
            (pc' = "nr_return" /\ ~converged')]_vars

\* ------------------------------------------------ claims on the evaluators
\* the history invariants held in a state vector, one per direction
HistoryOf(v) == IF umat = "morph" THEN <<v[1]>> ELSE SubSeq(v, 1, NDir)

\* x <= y for finite fractions
AtMost(x, y) == finite(x) /\ finite(y) /\ x.n * y.d <= y.n * x.d

\* the largest fraction of a set of finite fractions
Greatest(S) == CHOOSE x \in S : \A y \in S : AtMost(y, x)

\* the calls S, in the order they were made, each got the state object the
\* one before it had returned
IsChain(S) ==
    \A i \in S, j \in S :
        (i < j /\ ~\E m \in S : i < m /\ m < j) => evals[j].inp = evals[i].out

First(S) == CHOOSE i \in S : \A j \in S : i <= j

Last(S) == CHOOSE i \in S : \A j \in S : j <= i

\* the stretch 1, 6/5 or 1 again that call i of the uniaxial form applied in
\* direction k
Stretched(i, k, lam) == umat = "morph_uniaxial" /\ evals[i].strain[k] = lam

\* C11 (as claimed): for morph and for morph_uniaxial the history invariant
\* written to the new state is the maximum of the history invariant of the
\* previous state and of the Tresca invariant of the current strain; along a
\* chain of calls, each seeded with the state the one before returned, it
\* never decreases and equals the maximum of the seed and of all Tresca
\* invariants of the chain; after the stretches 1, 6/5, 1 it is still the
\* 91/150 of the second step while the Tresca invariant of the third is 0.
C11_HistoryRatchet ==
    /\ \A i \in 1..Len(evals) : \A k \in 1..Len(evals[i].CT) :
          HistoryOf(evals[i].new)[k]
              = Greatest({HistoryOf(evals[i].old)[k], evals[i].CT[k]})
    /\ \A S \in SUBSET (1..Len(evals)) :
          (S # {} /\ IsChain(S)) =>
              \A k \in 1..Len(evals[Last(S)].CT) :
                  /\ HistoryOf(evals[Last(S)].new)[k]
                        = Greatest({HistoryOf(evals[First(S)].old)[k]}
                                   \cup {evals[i].CT[k] : i \in S})
                  /\ \A i \in S, j \in S :
                        i < j => AtMost(HistoryOf(evals[i].new)[k],
                                        HistoryOf(evals[j].new)[k])
    /\ \A k \in 1..NDir :
          (/\ Len(evals) = 3
           /\ IsChain({1, 2, 3})
           /\ HistoryOf(evals[1].old)[1] = Q(0, 1)
           /\ Stretched(1, k, Q(1, 1))
           /\ Stretched(2, k, Q(6, 5))
           /\ Stretched(3, k, Q(1, 1))
           /\ k <= Len(evals[3].CT)) =>
              /\ evals[3].CT[k] = Q(0, 1)
              /\ HistoryOf(evals[2].new)[k] = [n |-> 91, d |-> 150]
              /\ HistoryOf(evals[3].new)[k] = [n |-> 91, d |-> 150]

\* C11 (amended): the history invariant written to a new state that is
\* stacked is the maximum of the history invariant of the previous state and
\* of the Tresca invariant of the current strain; where the stacking falls
\* back, the state returned holds the history invariant of the previous
\* state, whatever the Tresca invariant of the call.  Along a chain of calls
\* the history invariant never decreases and is the maximum of the seed and
\* of the Tresca invariants of the calls whose state was stacked; after the
\* stretches 1, 6/5, 1, stacked at the second and third step, it is still
\* the 91/150 of the second step while the Tresca invariant of the third
\* is 0.
C11_HistoryRatchetStacked ==
    /\ \A i \in 1..Len(evals) : \A k \in 1..Len(evals[i].CT) :
          HistoryOf(evals[i].new)[k]
              = IF evals[i].stacked
                THEN Greatest({HistoryOf(evals[i].old)[k], evals[i].CT[k]})
                ELSE HistoryOf(evals[i].old)[k]
    /\ \A S \in SUBSET (1..Len(evals)) :
          (S # {} /\ IsChain(S)) =>
              \A k \in 1..Len(evals[Last(S)].CT) :
                  /\ HistoryOf(evals[Last(S)].new)[k]
                        = Greatest({HistoryOf(evals[First(S)].old)[k]}
                                   \cup {evals[i].CT[k] :
                                            i \in {j \in S : evals[j].stacked}})
                  /\ \A i \in S, j \in S :
                        i < j => AtMost(HistoryOf(evals[i].new)[k],
                                        HistoryOf(evals[j].new)[k])
    /\ \A k \in 1..NDir :
          (/\ Len(evals) = 3
           /\ IsChain({1, 2, 3})
           /\ HistoryOf(evals[1].old)[1] = Q(0, 1)
           /\ Stretched(1, k, Q(1, 1))
           /\ Stretched(2, k, Q(6, 5))
           /\ Stretched(3, k, Q(1, 1))
           /\ evals[2].stacked
           /\ evals[3].stacked
           /\ k <= Len(evals[3].CT)) =>
              /\ evals[3].CT[k] = Q(0, 1)
              /\ HistoryOf(evals[2].new)[k] = [n |-> 91, d |-> 150]
              /\ HistoryOf(evals[3].new)[k] = [n |-> 91, d |-> 150]

\* morph_uniaxial has been called with the stretches 1, 6/5, 1 in its first
\* direction, each call seeded with the state of the one before
C11_Witness ==
    /\ umat = "morph_uniaxial"
    /\ Len(evals) = 3
    /\ IsChain({1, 2, 3})
    /\ evals[1].strain[1] = Q(1, 1)
    /\ evals[2].strain[1] = Q(6, 5)
    /\ evals[3].strain[1] = Q(1, 1)
    /\ evals[2].stacked
    /\ evals[3].stacked
    /\ evals[3].CT[1] = Q(0, 1)
    /\ HistoryOf(evals[3].new)[1] = [n |-> 91, d |-> 150]

\* morph_uniaxial, without stabilization, has fallen back to the previous
\* state in a call whose Tresca invariant is above the history invariant:
\* direction 1 is stretched as in the previous state, direction 2 further
C11_WitnessFallback ==
    /\ umat = "morph_uniaxial"
    /\ Len(evals) >= 1
    /\ ~evals[1].stacked
    /\ qlt(HistoryOf(evals[1].old)[2], evals[1].CT[2])
    /\ HistoryOf(evals[1].new)[2] = HistoryOf(evals[1].old)[2]

\* every entry of a tensor is finite
TensorFinite(X) == \A i \in 1..3 : \A j \in 1..3 : finite(X[i][j])

\* every entry of a state vector is finite
AllFinite(v) == \A i \in 1..Len(v) : finite(v[i])

\* C12: whenever the Tresca-type invariant LTG of the incremental tensor of
\* a call of morph is exactly zero, the virgin state with zero history
\* invariant at the undeformed configuration included, neither the stress
\* nor the state returned holds a value that is not finite.
C12_DegeneracyGuard ==
    \A i \in 1..Len(evals) :
        (umat = "morph" /\ evals[i].LT[1] = Q(0, 1)) =>
            /\ TensorFinite(evals[i].stress)
            /\ AllFinite(evals[i].new)

\* C13: when the state variables that a call of morph or of morph_uniaxial
\* has computed cannot be stacked (one of them is not finite), the state
\* returned is the previous state vector the call was given, the same
\* object with every entry unchanged; so that a call given a state without
\* not-a-number values returns a state without them.
C13_FallbackIsPrevious ==
    \A i \in 1..Len(evals) :
        /\ ~AllFinite(evals[i].cand) =>
              /\ evals[i].new = evals[i].old
              /\ evals[i].out = evals[i].inp
              /\ states[evals[i].out] = evals[i].old
        /\ AllFinite(evals[i].old) => AllFinite(evals[i].new)

\* morph_uniaxial, without stabilization, has been called twice with the
\* same stretches, the second call seeded with the state of the first: the
\* overstresses of the second call are not finite and the state it returns
\* is the state of the first, history invariant 7/2 included
C13_Witness ==
    /\ umat = "morph_uniaxial"
    /\ Len(evals) >= 2
    /\ evals[1].stacked
    /\ evals[2].inp = evals[1].out
    /\ evals[2].strain = evals[1].strain
    /\ ~AllFinite(evals[2].cand)
    /\ evals[2].new = evals[1].new
    /\ evals[2].out = evals[2].inp
    /\ HistoryOf(evals[2].new)[1] = Q(7, 2)

\* morph has been called with a previous state that holds the undeformed
\* strain and no history, at the undeformed strain: the new state cannot be
\* stacked and the state returned is the one passed
C13_WitnessMorph ==
    /\ umat = "morph"
    /\ Len(evals) >= 1
    /\ ~AllFinite(evals[1].cand)
    /\ evals[1].old = <<Q(0, 1)>> \o triu_1d(One3) \o triu_1d(Zero3)
    /\ evals[1].new = evals[1].old
    /\ evals[1].out = 1

C14_WitnessRD ==
    /\ umat = "morph_representative_directions"
    /\ Len(evals) = 3
    /\ evals[1].stacked
    /\ evals[1].new # evals[1].old
    /\ evals[3].strain = evals[1].strain
    /\ evals[3].inp = evals[1].inp
    /\ evals[3].stress = evals[1].stress
    /\ evals[2].strain # evals[1].strain
    /\ evals[2].inp = evals[1].out

\* ------------------------------------- claims on the partition and the loop
\* the indices held in a sequence
AsSet(d) == {d[i] : i \in 1..Len(d)}

\* dof0 and dof1 are disjoint and together are the index range 1..n
Partitions(p, n) ==
    /\ AsSet(p.dof0) \cap AsSet(p.dof1) = {}
    /\ AsSet(p.dof0) \cup AsSet(p.dof1) = 1..n
    /\ Len(p.dof0) + Len(p.dof1) = n

Iota(n) == [i \in 1..n |-> i]

FreshTangent ==
    AssembleMatrix(fun_A(mat, DefGrad(heap[fields]), Interp(heap[fields])))

\* C17: at every linear solve of newtonrhapson the residual r and the
\* tangent K are both the ones assembled from the field values at the start
\* of that iteration, on the first iteration and after any iteration that did
\* not converge.
C17_SolveUsesCurrent ==
    (pc = "nr_loop" /\ LoopHasNext(iteration, maxiter)) =>
        /\ r = FreshResidual
        /\ K = FreshTangent

\* a second solve is due after an iteration that changed the tangent
C17_Witness ==
    /\ pc = "nr_loop"
    /\ iteration = 1
    /\ LoopHasNext(iteration, maxiter)
    /\ K # entry.K
    /\ r # entry.r

\* number of increments whose target has been set on the boundary
Attempted == Len(calls) + (IF pc \in {"inc_apply", "nr_entry"} THEN 1 ELSE 0)

\* C18: in every increment incsolve sets the boundary's value to the target
\* of the increment, then computes u0ext from the bounds, then invokes the
\* corrector with that u0ext, each once; the boundary value is written at no
\* other point, and after incsolve has returned it is the target of the last
\* increment attempted.
C18_IncrementOrder ==
    /\ boundsValue = IF Attempted = 0 THEN 0 ELSE move[Attempted]
    /\ \A i \in 1..Len(calls) : calls[i] = i
    /\ pc = "inc_apply" => increment = Len(calls) + 1
    /\ pc = "nr_entry" =>
          /\ increment = Len(calls) + 1
          /\ u0ext = apply(move[increment], part.dof0)
    /\ (entry # NoEntry /\ pc \notin {"inc_apply", "nr_entry"}) =>
          entry.u0ext = apply(move[Len(calls)], part.dof0)
    /\ \A j \in 1..Len(log) : log[j].increment = j
    /\ (pc = "done" /\ Len(move) > 0) =>
          /\ Len(calls) = Len(log)
          /\ boundsValue = move[Len(calls)]

\* incsolve has returned after two increments with different targets
C18_Witness ==
    /\ pc = "done"
    /\ Len(move) = 2
    /\ Len(calls) = 2
    /\ move[1] # move[2]
    /\ boundsValue = move[2]

\* the field values of the Result, and those before the last correction
ResultFields == heap[Result.fields]

BeforeLast ==
    [k \in 1..Len(ResultFields) |->
        [i \in 1..Len(ResultFields[k]) |-> Sub(ResultFields[k][i], dfields[k][i])]]

\* C19: in a Result with converged = true, r, F and f are evaluated at the
\* field values returned, K and A at the field values before the last
\* correction; in a Result returned after maxiter iterations that did not
\* converge, r, K, F, f and A are all evaluated at the field values returned.
C19_ResultFreshness ==
    /\ (pc = "inc_commit" /\ Result.converged) =>
          /\ Result.F = DefGrad(ResultFields)
          /\ Result.f = fun_f(mat, DefGrad(ResultFields), Interp(ResultFields))
          /\ Result.r = AssembleVector(Result.f)
          /\ Result.A = fun_A(mat, DefGrad(BeforeLast), Interp(BeforeLast))
          /\ Result.K = AssembleMatrix(Result.A)
    /\ (pc = "inc_commit" /\ exit = "maxiter") =>
          /\ ~Result.converged
          /\ Result.F = DefGrad(ResultFields)
          /\ Result.f = fun_f(mat, DefGrad(ResultFields), Interp(ResultFields))
          /\ Result.r = AssembleVector(Result.f)
          /\ Result.A = fun_A(mat, DefGrad(ResultFields), Interp(ResultFields))
          /\ Result.K = AssembleMatrix(Result.A)

\* a converged Result whose tangent is not the one of the fields returned
C19_Witness ==
    /\ pc = "inc_commit"
    /\ Result.converged
    /\ Result.K # AssembleMatrix(fun_A(mat, DefGrad(ResultFields), Interp(ResultFields)))
    /\ Result.K = AssembleMatrix(fun_A(mat, DefGrad(BeforeLast), Interp(BeforeLast)))

\* a Result returned after maxiter iterations, none of which converged
C19_WitnessExhausted ==
    /\ pc = "inc_commit"
    /\ exit = "maxiter"
    /\ iteration = 2
    /\ Result.K # entry.K

\* -------------------------------------- claims on the multi-point constraint
\* the points tied by the constraint: the constrained points and the centerpoint
Tied == {points[k] : k \in 1..Len(points)} \cup {centerpoint}

\* the entries of results.force of the tied points on an axis, summed
RECURSIVE ForceSum(_, _)
ForceSum(S, ax) ==
    IF S = {} THEN 0
    ELSE force[Index(CHOOSE p \in S : TRUE, ax)]
            + ForceSum(S \ {CHOOSE p \in S : TRUE}, ax)

\* C20: on every axis marked as skipped the residual from _vector and the
\* stiffness from _matrix have only zero entries at the constrained points
\* and at the centerpoint, and on every other axis the residual entries of
\* the constrained points and of the centerpoint sum to zero.
C20_SkipMaskConsistent ==
    /\ force # <<>> =>
          \A ax \in 1..MeshDim : \A p \in Tied :
              skip[ax] => force[Index(p, ax)] = 0
    /\ stiffness # <<>> =>
          \A ax \in 1..MeshDim : \A p \in Tied : \A j \in 1..(MeshPoints * MeshDim) :
              skip[ax] => /\ stiffness[Index(p, ax)][j] = 0
                          /\ stiffness[j][Index(p, ax)] = 0
    /\ force # <<>> =>
          \A ax \in 1..MeshDim : ~skip[ax] => ForceSum(Tied, ax) = 0
====
